---------------------------- MODULE Spec2Model ----------------------------
(***************************************************************************)
(* Model of submission.py: the module-level script that reads              *)
(* moviesdata.csv, cleans four columns, derives Decade, filters the genres *)
(* with more than 10 rows, builds the layout, and then serves the one      *)
(* callback  genre-dropdown.value -> facet-chart.figure.                   *)
(*                                                                         *)
(* A text is a sequence of one-character strings, so that the regex and    *)
(* string replacements and the float parse are computed character by       *)
(* character.  A cell is NaN, Str(text) or Num(n).  The numeric texts of   *)
(* the model are unsigned decimal integers, so a float is represented by   *)
(* the integer it equals (1234567.0 is 1234567).                           *)
(*                                                                         *)
(* The plotly figure constructors (px.treemap, px.scatter, px.bar,         *)
(* px.parallel_coordinates) are library calls; of a figure the model keeps *)
(* what the script passes in: the rows, the title's genre and the marker   *)
(* colour.                                                                 *)
(***************************************************************************)
EXTENDS Integers, Sequences, FiniteSets, TLC

VARIABLES
    pc,               \* position in the script, "serving" once the app runs
    file,             \* the rows of moviesdata.csv, as texts
    data,             \* the DataFrame `data`
    genre_colors,     \* the dict `genre_colors`
    selected_genres,  \* the list `selected_genres`
    data_filtered,    \* the DataFrame `data_filtered`
    options,          \* the values of genre-dropdown's options
    value,            \* genre-dropdown's value
    figure,           \* facet-chart's figure
    err,              \* the exception that ended the script, or "none"
    returned          \* history: the calls of create_facet_chart, as (argument, figure) pairs

vars == <<pc, file, data, genre_colors, selected_genres, data_filtered,
          options, value, figure, err, returned>>

--------------------------------------------------------------------------
(* Bounds of the model *)

\* largest number of identical well-formed rows of one genre in the file
MaxCount == 12

\* largest number of further rows, each taken from ExtraRows
MaxExtra == 1

--------------------------------------------------------------------------
(* Cells *)

NaN == [t |-> "nan"]
Str(s) == [t |-> "str", s |-> s]
Num(n) == [t |-> "num", n |-> n]

\* the figure property / callback argument None
None == [t |-> "none"]

isna(c) == c.t = "nan"

--------------------------------------------------------------------------
(* Texts and their conversions *)

Digits == {"0", "1", "2", "3", "4", "5", "6", "7", "8", "9"}

DigitVal(c) ==
    CASE c = "0" -> 0 [] c = "1" -> 1 [] c = "2" -> 2 [] c = "3" -> 3
      [] c = "4" -> 4 [] c = "5" -> 5 [] c = "6" -> 6 [] c = "7" -> 7
      [] c = "8" -> 8 [] c = "9" -> 9

\* whether float(s) succeeds, for the texts of the model: a nonempty run of digits
IsNumeric(s) == Len(s) > 0 /\ \A i \in 1..Len(s) : s[i] \in Digits

RECURSIVE ToNumber(_)
\* the value float(s) of a numeric text
ToNumber(s) ==
    IF s = <<>> THEN 0
    ELSE 10 * ToNumber(SubSeq(s, 1, Len(s) - 1)) + DigitVal(s[Len(s)])

RECURSIVE ReSub(_, _, _)
\* re.sub(p, r, s) for the one-character patterns the script uses.  "," is a
\* literal; "$" is the end-of-text anchor: it matches the empty text at the end
\* of s, so r is put there and no character of s is removed.
ReSub(p, r, s) ==
    IF p = "$" THEN s \o r
    ELSE IF s = <<>> THEN <<>>
    ELSE (IF Head(s) = p THEN r ELSE <<Head(s)>>) \o ReSub(p, r, Tail(s))

StartsWith(s, old) == Len(s) >= Len(old) /\ SubSeq(s, 1, Len(old)) = old

RECURSIVE StrReplace(_, _, _)
\* s.replace(old, new) for a nonempty literal old
StrReplace(old, new, s) ==
    IF s = <<>> THEN <<>>
    ELSE IF StartsWith(s, old)
         THEN new \o StrReplace(old, new, SubSeq(s, Len(old) + 1, Len(s)))
         ELSE <<Head(s)>> \o StrReplace(old, new, Tail(s))

--------------------------------------------------------------------------
(* Columns *)

get_column(df, c) == [i \in 1..Len(df) |-> df[i][c]]

set_column(df, c, col) == [i \in 1..Len(df) |-> [df[i] EXCEPT ![c] = col[i]]]

\* dtype object: what read_csv gives a column with no rows or with a text that
\* is no number; a column of numbers and NaN only is int64/float64
is_object(col) == Len(col) = 0 \/ \E i \in 1..Len(col) : col[i].t = "str"

\* whether float() succeeds on every element (NaN converts to nan)
all_float(col) == \A i \in 1..Len(col) : col[i].t = "str" => IsNumeric(col[i].s)

\* Series.replace(p, r, regex=True): only str elements are rewritten
series_replace(col, p, r) ==
    [i \in 1..Len(col) |->
        IF col[i].t = "str" THEN Str(ReSub(p, r, col[i].s)) ELSE col[i]]

\* Series.str.replace(old, new) on an object column: NaN stays NaN
str_replace(col, old, new) ==
    [i \in 1..Len(col) |->
        IF col[i].t = "str" THEN Str(StrReplace(old, new, col[i].s)) ELSE NaN]

\* Series.astype(float, errors='ignore'): the whole column converts, or, when
\* one element raises, the column is returned as it was
astype_float_ignore(col) ==
    IF all_float(col)
    THEN [i \in 1..Len(col) |->
            IF col[i].t = "str" THEN Num(ToNumber(col[i].s)) ELSE col[i]]
    ELSE col

\* pd.to_numeric(col, errors='coerce'): element by element, NaN on failure
to_numeric_coerce(col) ==
    [i \in 1..Len(col) |->
        IF col[i].t = "str"
        THEN IF IsNumeric(col[i].s) THEN Num(ToNumber(col[i].s)) ELSE NaN
        ELSE col[i]]

--------------------------------------------------------------------------
(* The input file *)

T_min == <<" ", "m", "i", "n">>
T_142min == <<"1", "4", "2">> \o T_min
T_98min == <<"9", "8">> \o T_min
T_abc == <<"a", "b", "c">>
T_NA == <<"N", "/", "A">>
T_PG == <<"P", "G">>
T_1999 == <<"1", "9", "9", "9">>
T_2004 == <<"2", "0", "0", "4">>
T_100 == <<"1", "0", "0">>
T_gross_plain == <<"1", "2", "3", "4">>
T_gross_commas == <<"2", "8", ",", "3", "4", "1">>
T_gross_dollar == <<"$", "1", ",", "2", "3", "4", ",", "5", "6", "7">>

\* read_csv's default na_values that the texts of the model can spell
NaTexts == {<<>>, T_NA, <<"N", "A">>, <<"N", "a", "N">>, <<"n", "a", "n">>}
NaGenres == {"", "N/A", "NA", "NaN", "nan"}

FileRow(g, gross, votes, runtime, year) ==
    [Genre |-> g, Gross |-> gross, No_of_Votes |-> votes,
     Runtime |-> runtime, Released_Year |-> year]

\* a row as the dataset's format has it
GoodRow(g, year) == FileRow(g, T_gross_commas, T_100, T_142min, year)

BlockGenres == <<"Horror", "Western">>
BlockYears == <<T_1999, T_2004>>

ExtraRows ==
    { FileRow("Horror", T_gross_dollar, T_100, T_142min, T_1999),
      FileRow("Western", T_abc, T_100, T_142min, T_2004),
      FileRow("Horror", T_NA, T_100, T_98min, T_1999),
      FileRow("Western", T_gross_commas, T_100, T_142min, T_PG),
      FileRow("Horror", T_gross_commas, T_100, T_abc, T_2004),
      FileRow("Western", T_gross_plain, T_100, <<>>, T_2004),
      FileRow("", T_gross_commas, T_100, T_98min, T_1999),
      FileRow("Horror", T_gross_commas, T_abc, T_98min, T_2004),
      FileRow("Shortfilm", T_gross_plain, T_100, T_98min, T_2004) }

Rep(r, n) == [i \in 1..n |-> r]

\* the threshold of `genre_counts > 10`
Threshold == 10

\* no rows of a genre, or about as many as the threshold
BlockCounts == {0} \cup {n \in 1..MaxCount : n >= Threshold}

ExtraSeqs == UNION {[1..n -> ExtraRows] : n \in 0..MaxExtra}

Files ==
    { Rep(GoodRow(BlockGenres[1], BlockYears[1]), h)
        \o Rep(GoodRow(BlockGenres[2], BlockYears[2]), w) \o x :
        h \in BlockCounts, w \in BlockCounts, x \in ExtraSeqs }

--------------------------------------------------------------------------
(* Line 7: data = pd.read_csv('moviesdata.csv') *)

NoColumn == [t |-> "absent"]

read_cell(text) == IF text \in NaTexts THEN NaN ELSE Str(text)

\* a column all of whose present texts are numbers is parsed as numbers; any
\* other column keeps its texts (dtype object)
read_column(texts) ==
    LET raw == [i \in 1..Len(texts) |-> read_cell(texts[i])]
    IN  IF Len(raw) > 0 /\ all_float(raw) THEN astype_float_ignore(raw) ELSE raw

read_csv(f) ==
    LET gross == read_column(get_column(f, "Gross"))
        votes == read_column(get_column(f, "No_of_Votes"))
        runtime == read_column(get_column(f, "Runtime"))
        year == read_column(get_column(f, "Released_Year"))
    IN  [i \in 1..Len(f) |->
            [index |-> i,
             Genre |-> IF f[i].Genre \in NaGenres THEN NaN ELSE Str(f[i].Genre),
             Gross |-> gross[i],
             No_of_Votes |-> votes[i],
             Runtime |-> runtime[i],
             Released_Year |-> year[i],
             Decade |-> NoColumn]]

--------------------------------------------------------------------------
(* Lines 11-18: the cleaning pass *)

\* line 11
clean_gross(col) ==
    astype_float_ignore(series_replace(series_replace(col, ",", <<>>), "$", <<>>))

\* line 13, on an object column
clean_runtime(col) == astype_float_ignore(str_replace(col, T_min, <<>>))

\* a dropna whose subset leaves Gross out
dropna_year_only(df) ==
    LET keep(r) == ~isna(r.Released_Year)
    IN  SelectSeq(df, keep)

\* line 15: data.dropna(subset=['Released_Year', 'Gross'])
dropna(df) ==
    LET keep(r) == ~isna(r.Released_Year) /\ ~isna(r.Gross)
    IN  SelectSeq(df, keep)

\* a decade rounded to the nearest ten instead of floored
decade_rounded(y) == IF y.t = "num" THEN Num(((y.n + 5) \div 10) * 10) ELSE NaN

\* line 18: (x // 10) * 10 on one element
decade_of(y) == IF y.t = "num" THEN Num((y.n \div 10) * 10) ELSE NaN

--------------------------------------------------------------------------
(* Lines 38-40: the genre filter *)

Range(s) == {s[i] : i \in 1..Len(s)}

\* the number of rows of df whose Genre is g
genre_count(df, g) == Cardinality({i \in 1..Len(df) : df[i].Genre = Str(g)})

\* the genres of df; value_counts() leaves NaN out
genres_of(df) == {df[i].Genre.s : i \in {j \in 1..Len(df) : df[j].Genre.t = "str"}}

\* a threshold test that lets a genre of exactly 10 rows through
qualifies_at_least(df, g) == genre_count(df, g) >= Threshold

\* genre_counts[genre_counts > 10]
qualifies(df, g) == genre_count(df, g) > Threshold

\* the orders value_counts() may give the qualifying genres: by descending
\* count, genres of equal count in either order
index_lists(df) ==
    LET Q == {g \in genres_of(df) : qualifies(df, g)}
    IN  { s \in [1..Cardinality(Q) -> Q] :
            /\ Range(s) = Q
            /\ \A i, j \in 1..Len(s) :
                 i < j => genre_count(df, s[i]) >= genre_count(df, s[j]) }

\* data[data['Genre'].isin(selected_genres)]
isin_filter(df, genres) ==
    LET keep(r) == r.Genre.t = "str" /\ r.Genre.s \in Range(genres)
    IN  SelectSeq(df, keep)

--------------------------------------------------------------------------
(* Lines 85-113: create_facet_chart, and lines 173-178: the callback *)

Fallback == "#337BFF"

\* a lookup that never consults the table
selected_color_default_only(selected_genre) == Fallback

\* genre_colors.get(selected_genre, '#337BFF')
selected_color(selected_genre) ==
    IF selected_genre.t = "str" /\ selected_genre.s \in DOMAIN genre_colors
    THEN genre_colors[selected_genre.s]
    ELSE Fallback

\* a builder that colours by the dropdown's current value, not by its argument
create_facet_chart_reads_value(selected_genre) ==
    LET match(r) == r.Genre = selected_genre
        filtered_data == SelectSeq(data_filtered, match)
    IN  [title |-> selected_genre,
         rows |-> get_column(filtered_data, "index"),
         x |-> get_column(filtered_data, "Decade"),
         marker_color |-> selected_color(value)]

create_facet_chart(selected_genre) ==
    LET match(r) == r.Genre = selected_genre
        filtered_data == SelectSeq(data_filtered, match)
    IN  [title |-> selected_genre,
         rows |-> get_column(filtered_data, "index"),
         x |-> get_column(filtered_data, "Decade"),
         marker_color |-> selected_color(selected_genre)]

update_facet_chart(selected_genre) == create_facet_chart(selected_genre)

--------------------------------------------------------------------------
(* Lines 153-156: the dropdown *)

\* a default that is the last entry of the list
dropdown_default_last ==
    IF selected_genres # <<>>
    THEN [ok |-> TRUE, value |-> Str(selected_genres[Len(selected_genres)])]
    ELSE [ok |-> FALSE, value |-> None]

\* a default that guards the empty list instead of raising
dropdown_default_guarded ==
    IF selected_genres # <<>>
    THEN [ok |-> TRUE, value |-> Str(selected_genres[1])]
    ELSE [ok |-> TRUE, value |-> None]

\* value=selected_genres[0]: IndexError on an empty list
dropdown_default ==
    IF selected_genres # <<>>
    THEN [ok |-> TRUE, value |-> Str(selected_genres[1])]
    ELSE [ok |-> FALSE, value |-> None]

--------------------------------------------------------------------------
(* The script *)

Init ==
    /\ pc = "read_csv"
    /\ file \in Files
    /\ data = <<>>
    /\ genre_colors =
         [g \in {"Action", "Adventure", "Drama", "Comedy", "Horror", "Thriller",
                 "Animation", "Sci-Fi", "Crime", "Romance"} |->
            CASE g = "Action" -> "#FF5733"
              [] g = "Adventure" -> "#33FF57"
              [] g = "Drama" -> "#337BFF"
              [] g = "Comedy" -> "#F39C12"
              [] g = "Horror" -> "#8E44AD"
              [] g = "Thriller" -> "#C0392B"
              [] g = "Animation" -> "#1ABC9C"
              [] g = "Sci-Fi" -> "#9B59B6"
              [] g = "Crime" -> "#34495E"
              [] g = "Romance" -> "#E74C3C"]
    /\ selected_genres = <<>>
    /\ data_filtered = <<>>
    /\ options = <<>>
    /\ value = None
    /\ figure = None
    /\ err = "none"
    /\ returned = {}

tables == <<genre_colors, selected_genres, data_filtered>>
page == <<options, value, figure, returned>>

ReadCsv ==
    /\ pc = "read_csv"
    /\ data' = read_csv(file)
    /\ pc' = "gross"
    /\ UNCHANGED <<file, err, tables, page>>

CleanGross ==
    /\ pc = "gross"
    /\ data' = set_column(data, "Gross", clean_gross(get_column(data, "Gross")))
    /\ pc' = "votes"
    /\ UNCHANGED <<file, err, tables, page>>

CleanVotes ==
    /\ pc = "votes"
    /\ data' = set_column(data, "No_of_Votes",
                          to_numeric_coerce(get_column(data, "No_of_Votes")))
    /\ pc' = "runtime"
    /\ UNCHANGED <<file, err, tables, page>>

\* .str raises AttributeError on a column that is not of dtype object
CleanRuntime ==
    /\ pc = "runtime"
    /\ \/ /\ is_object(get_column(data, "Runtime"))
          /\ data' = set_column(data, "Runtime",
                                clean_runtime(get_column(data, "Runtime")))
          /\ pc' = "year"
          /\ err' = err
       \/ /\ ~is_object(get_column(data, "Runtime"))
          /\ data' = data
          /\ pc' = "error"
          /\ err' = "AttributeError"
    /\ UNCHANGED <<file, tables, page>>

CleanYear ==
    /\ pc = "year"
    /\ data' = set_column(data, "Released_Year",
                          to_numeric_coerce(get_column(data, "Released_Year")))
    /\ pc' = "dropna"
    /\ UNCHANGED <<file, err, tables, page>>

DropNa ==
    /\ pc = "dropna"
    /\ data' = dropna(data)
    /\ pc' = "decade"
    /\ UNCHANGED <<file, err, tables, page>>

Decade ==
    /\ pc = "decade"
    /\ data' = [i \in 1..Len(data) |->
                  [data[i] EXCEPT !.Decade = decade_of(data[i].Released_Year)]]
    /\ pc' = "filter"
    /\ UNCHANGED <<file, err, tables, page>>

GenreFilter ==
    /\ pc = "filter"
    /\ \E s \in index_lists(data) :
          /\ selected_genres' = s
          /\ data_filtered' = isin_filter(data, s)
    /\ pc' = "layout"
    /\ UNCHANGED <<file, data, err, genre_colors, page>>

\* lines 134-171; the static figures of lines 43-131 are built before it
Layout ==
    /\ pc = "layout"
    /\ \/ /\ dropdown_default.ok
          /\ options' = selected_genres
          /\ value' = dropdown_default.value
          /\ pc' = "serving"
          /\ err' = err
       \/ /\ ~dropdown_default.ok
          /\ pc' = "error"
          /\ err' = "IndexError"
          /\ UNCHANGED <<options, value>>
    /\ UNCHANGED <<file, data, tables, figure, returned>>

\* the callback's first call, with the dropdown's initial value
PageLoad ==
    /\ pc = "serving"
    /\ figure = None
    /\ figure' = update_facet_chart(value)
    /\ returned' = returned \cup {[arg |-> value, fig |-> figure']}
    /\ UNCHANGED <<pc, file, data, err, tables, options, value>>

\* the user picks an option, or clears the dropdown (None)
SelectGenre(v) ==
    /\ pc = "serving"
    /\ figure # None
    /\ value' = v
    /\ figure' = update_facet_chart(v)
    /\ returned' = returned \cup {[arg |-> v, fig |-> figure']}
    /\ UNCHANGED <<pc, file, data, err, tables, options>>

Next ==
    \/ ReadCsv
    \/ CleanGross
    \/ CleanVotes
    \/ CleanRuntime
    \/ CleanYear
    \/ DropNa
    \/ Decade
    \/ GenreFilter
    \/ Layout
    \/ PageLoad
    \/ \E v \in {Str(options[i]) : i \in 1..Len(options)} \cup {None} : SelectGenre(v)

Spec == Init /\ [][Next]_vars

--------------------------------------------------------------------------
(* Properties *)

\* the cleaning pass (lines 11-15) is over
Cleaned == pc \in {"decade", "filter", "layout", "serving"} \/ err = "IndexError"

\* lines 38-40 are over
Filtered == pc \in {"layout", "serving"} \/ err = "IndexError"

\* the row of the file a row of data was read from
Source(r) == file[r.index]

\* the rows of a table whose Genre is g, by position
RowsOf(df, g) == {i \in 1..Len(df) : df[i].Genre = Str(g)}

GenreNames == {"Horror", "Western", "Shortfilm", "Drama"}

\* the text without thousands separators and currency symbols
Stripped(text) ==
    LET keep(c) == c \notin {",", "$"}
    IN  SelectSeq(text, keep)

\* C1: after the cleaning pass every row of the cleaned table has a non-null
\* Released_Year and a non-null Gross.
C1_RequiredFieldsNonNull ==
    Cleaned =>
        \A i \in 1..Len(data) : data[i].Released_Year # NaN /\ data[i].Gross # NaN

\* C1's case: the retention filter dropped a row and kept a row
C1_Witness == Cleaned /\ Len(data) > 0 /\ Len(data) < Len(file)

\* C2: a row whose Gross text is "$1,234,567" has the number 1234567.0 as its
\* Gross in the cleaned table.
C2_DollarGrossIsParsed ==
    Cleaned =>
        \A i \in 1..Len(data) :
            Source(data[i]).Gross = T_gross_dollar => data[i].Gross = Num(1234567)

\* C3: no row whose Gross text (separators and currency symbol stripped) or
\* whose Released_Year text is not a number is in the cleaned table.
C3_UnparseableRowsAreDropped ==
    Cleaned =>
        \A i \in 1..Len(data) :
            /\ IsNumeric(Stripped(Source(data[i]).Gross))
            /\ IsNumeric(Source(data[i]).Released_Year)

\* C4: for every row of the cleaned table Decade is the multiple of ten with
\* Decade <= Released_Year < Decade + 10 (1999 gives 1990), and a row has a
\* Decade only after the retention filter, which it passed.
C4_DecadeIsFlooredYear ==
    /\ pc \in {"read_csv", "gross", "votes", "runtime", "year", "dropna", "decade"}
          => \A i \in 1..Len(data) : data[i].Decade = NoColumn
    /\ pc \in {"filter", "layout", "serving"} \/ err = "IndexError"
          => \A i \in 1..Len(data) :
                /\ data[i].Released_Year.t = "num"
                /\ data[i].Gross # NaN
                /\ data[i].Decade.t = "num"
                /\ data[i].Decade.n % 10 = 0
                /\ data[i].Decade.n <= data[i].Released_Year.n
                /\ data[i].Released_Year.n < data[i].Decade.n + 10
                /\ Source(data[i]).Released_Year = T_1999 => data[i].Decade = Num(1990)

\* C4's case: Decade is computed, for a 1999 row and for a 2004 row, after a
\* row was dropped
C4_Witness ==
    /\ pc = "filter"
    /\ Len(data) < Len(file)
    /\ \E i, j \in 1..Len(data) :
          data[i].Decade = Num(1990) /\ data[j].Decade = Num(2000)

\* C5: a genre is in selected_genres iff it has more than 10 rows in the
\* cleaned table, and data_filtered is the rows of the cleaned table, in
\* order, whose genre is in selected_genres.
C5_GenreFilter ==
    Filtered =>
        /\ \A g \in GenreNames :
              g \in Range(selected_genres) <=> Cardinality(RowsOf(data, g)) > 10
        /\ Range(selected_genres) \subseteq GenreNames
        /\ \A i \in 1..Len(data) :
              (\E k \in 1..Len(data_filtered) : data_filtered[k] = data[i])
                  <=> (\E g \in Range(selected_genres) : data[i].Genre = Str(g))
        /\ \A k \in 1..Len(data_filtered) :
              \E i \in 1..Len(data) : data_filtered[k] = data[i]
        /\ \A k, l \in 1..Len(data_filtered) :
              k < l => data_filtered[k].index < data_filtered[l].index

\* C5's case: one genre qualifies, another has exactly 10 rows in the cleaned
\* table and more than 10 in the file, and a row is filtered out
C5_Witness ==
    /\ pc = "layout"
    /\ \E g, h \in GenreNames :
          /\ g \in Range(selected_genres)
          /\ h \notin Range(selected_genres)
          /\ Cardinality(RowsOf(data, h)) = 10
          /\ Cardinality({i \in 1..Len(file) : file[i].Genre = h}) > 10
    /\ Len(data_filtered) < Len(data)

\* C6: a row whose Runtime text is "142 min" (or "98 min") has the number 142
\* (98) as its cleaned Runtime, whatever the other rows hold; and a row whose
\* Runtime is not a number is kept by the retention filter.
C6_RuntimeIsParsedPerRow ==
    /\ pc \in {"year", "dropna"} \/ Cleaned
          => \A i \in 1..Len(data) :
                /\ Source(data[i]).Runtime = T_142min => data[i].Runtime = Num(142)
                /\ Source(data[i]).Runtime = T_98min => data[i].Runtime = Num(98)
    /\ Cleaned
          => \A i \in 1..Len(file) :
                (/\ ~IsNumeric(StrReplace(T_min, <<>>, file[i].Runtime))
                 /\ IsNumeric(Stripped(file[i].Gross))
                 /\ IsNumeric(file[i].Released_Year))
                    => \E k \in 1..Len(data) : data[k].index = i

\* C7: every figure create_facet_chart returned for a genre g has the marker
\* colour genre_colors[g] when g is a key of genre_colors ('#8E44AD' for
\* Horror) and '#337BFF' when it is not, and no call raised.
C7_MarkerColour ==
    /\ pc = "serving" => err = "none"
    /\ \A c \in returned :
          c.arg.t = "str" =>
              /\ c.arg.s \in DOMAIN genre_colors
                    => c.fig.marker_color = genre_colors[c.arg.s]
              /\ c.arg.s = "Horror" => c.fig.marker_color = "#8E44AD"
              /\ c.arg.s \notin DOMAIN genre_colors
                    => c.fig.marker_color = "#337BFF"

\* C7's case: the chart was built for a genre of the table and for a
\* qualifying genre that is not in it
C7_Witness ==
    /\ pc = "serving"
    /\ \E c, d \in returned :
          /\ c.arg = Str("Horror")
          /\ d.arg.t = "str"
          /\ d.arg.s \in Range(selected_genres)
          /\ d.arg.s \notin DOMAIN genre_colors

\* the figure the callback is to show for dropdown value v
ChartShownFor(f, v) ==
    /\ f.title = v
    /\ Len(f.rows) = Len(f.x)
    /\ {f.rows[k] : k \in 1..Len(f.rows)}
          = {data_filtered[i].index :
                i \in {j \in 1..Len(data_filtered) : data_filtered[j].Genre = v}}
    /\ \A k \in 1..Len(f.rows) :
          \E i \in 1..Len(data_filtered) :
              data_filtered[i].index = f.rows[k] /\ data_filtered[i].Decade = f.x[k]

C8_Page ==
    pc = "serving" =>
        /\ options = selected_genres
        /\ \A i, j \in 1..Len(options) :
              i < j => Cardinality(RowsOf(data, options[i]))
                          >= Cardinality(RowsOf(data, options[j]))
        /\ figure # None => ChartShownFor(figure, value)

C8_Step ==
    /\ pc = "layout" /\ pc' = "serving" => value' = Str(selected_genres[1])
    /\ pc = "serving" /\ value' # value => ChartShownFor(figure', value')

\* C8: the dropdown's options are selected_genres in its order (descending row
\* count), its initial value is the first entry, and after every change of
\* the value the figure shown is the one built for the new value.
C8_DropdownDrivesChart == [](C8_Page) /\ [][C8_Step]_vars

\* C8's case: two genres qualify and the user has moved to the second
C8_Witness ==
    /\ pc = "serving"
    /\ Len(options) = 2
    /\ figure # None
    /\ value = Str(options[2])

C9_Step ==
    pc = "serving" => UNCHANGED <<data, data_filtered, selected_genres, genre_colors>>

\* C9: two calls of create_facet_chart with the same genre returned the same
\* figure, whatever calls came between them, and no call changes data,
\* data_filtered, selected_genres or genre_colors.
C9_BuilderIsPure ==
    /\ [](\A c, d \in returned : c.arg = d.arg => c.fig = d.fig)
    /\ [][C9_Step]_vars

\* C9's case: the builder ran for the first option, then for two other
\* values, then for the first option again
C9_Witness ==
    /\ pc = "serving"
    /\ Cardinality(returned) = 3
    /\ value = Str(options[1])

C10_Step ==
    /\ pc = "layout" =>
          IF \A i \in 1..Len(data) :
                data[i].Genre.t = "str"
                    => Cardinality(RowsOf(data, data[i].Genre.s)) <= 10
          THEN pc' = "error" /\ err' = "IndexError"
          ELSE /\ pc' = "serving"
               /\ value'.t = "str"
               /\ Cardinality(RowsOf(data, value'.s)) > 10
    /\ pc = "error" => pc' = "error"
    /\ pc' = "serving" => pc \in {"layout", "serving"}

==========================================================================
